---- MODULE Spec2Model ----
\* Licence-compliance checker (src/app.py): the manifest parser, the two licence
\* resolvers, the compliance classifier and the /check request handler with its
\* repository-snapshot mode.
\*
\* Python strings are sequences of one-character strings, so that substring
\* tests, strip(), split() and the regular expression are computed, not assumed.
EXTENDS Naturals, Sequences, FiniteSets, TLC

VARIABLES pc, repo_url, file, policy_name, policy, mode, download, entries, kind,
          queue, results, response, netlog, errlog, arg, ret

reqvars == <<pc, repo_url, file, policy_name, policy, mode, download, entries, kind,
             queue, results, response, netlog, errlog>>
vars == <<pc, repo_url, file, policy_name, policy, mode, download, entries, kind,
          queue, results, response, netlog, errlog, arg, ret>>

(***************************************************************************)
(* Bounds of the model.                                                    *)
(***************************************************************************)
\* longest generated licence string of the classifier's input space
MaxLicLen == 4
\* longest generated requirements.txt content of the parser's input space
MaxContentLen == 4

(***************************************************************************)
(* String constants of the source.                                         *)
(***************************************************************************)
S_MIT == <<"M", "I", "T">>
S_Apache2 == <<"A", "p", "a", "c", "h", "e", "-", "2", ".", "0">>
S_BSD3 == <<"B", "S", "D", "-", "3", "-", "C", "l", "a", "u", "s", "e">>
S_ISC == <<"I", "S", "C">>
S_GPL2 == <<"G", "P", "L", "-", "2", ".", "0">>
S_GPL3 == <<"G", "P", "L", "-", "3", ".", "0">>
S_AGPL3 == <<"A", "G", "P", "L", "-", "3", ".", "0">>
S_Unknown == <<"U", "n", "k", "n", "o", "w", "n">>
S_ErrorFetching == <<"E", "r", "r", "o", "r", " ", "f", "e", "t", "c", "h", "i", "n", "g", " ", "l", "i", "c", "e", "n", "s", "e">>
S_UNKNOWN == <<"U", "N", "K", "N", "O", "W", "N">>
S_OR == <<" ", "O", "R", " ">>
S_AND == <<" ", "A", "N", "D", " ">>
S_LicenseMarker == <<"L", "i", "c", "e", "n", "s", "e", " ", ":", ":">>
S_Sep == <<":", ":">>
S_requirements_txt == <<"r", "e", "q", "u", "i", "r", "e", "m", "e", "n", "t", "s", ".", "t", "x", "t">>
S_package_json == <<"p", "a", "c", "k", "a", "g", "e", ".", "j", "s", "o", "n">>
S_default == <<"d", "e", "f", "a", "u", "l", "t">>

Letters == {"a", "b", "c", "d", "e", "f", "g", "h", "i", "j", "k", "l", "m", "n", "o", "p", "q", "r", "s", "t", "u", "v", "w", "x", "y", "z", "A", "B", "C", "D", "E", "F", "G", "H", "I", "J", "K", "L", "M", "N", "O", "P", "Q", "R", "S", "T", "U", "V", "W", "X", "Y", "Z"}
Digits == {"0", "1", "2", "3", "4", "5", "6", "7", "8", "9"}
\* the character class [a-zA-Z0-9_.-] of package_pattern
NameChars == Letters \cup Digits \cup {"_", ".", "-"}
\* what str.strip() and the regular expression's \s take for whitespace
Whitespace == {" ", "\t", "\n", "\r", "\f"}
\* the line boundaries of str.splitlines() among the characters modelled
LineBreaks == {"\n", "\r", "\f"}

(***************************************************************************)
(* Python values: None, a str, a list.  v holds the characters of a str    *)
(* (for a list, the characters of its rendering; <<>> is the empty list).  *)
(***************************************************************************)
None == [t |-> "none", v |-> <<>>]
Str(s) == [t |-> "str", v |-> s]
List(s) == [t |-> "list", v |-> s]
\* Python truthiness, as `not x` and `x or y` use it
Truthy(x) == x.t # "none" /\ x.v # <<>>

(***************************************************************************)
(* String primitives.                                                      *)
(***************************************************************************)
StartsAt(s, sub, i) ==
    /\ i + Len(sub) - 1 <= Len(s)
    /\ \A k \in 1..Len(sub) : s[i + k - 1] = sub[k]

RECURSIVE ContainsFrom(_, _, _)
ContainsFrom(s, sub, i) ==
    IF i + Len(sub) - 1 > Len(s) THEN FALSE
    ELSE IF StartsAt(s, sub, i) THEN TRUE
    ELSE ContainsFrom(s, sub, i + 1)

\* `sub in s`
Contains(s, sub) == ContainsFrom(s, sub, 1)

\* s.endswith(suffix)
EndsWith(s, suffix) ==
    /\ Len(suffix) <= Len(s)
    /\ StartsAt(s, suffix, Len(s) - Len(suffix) + 1)

RECURSIVE LStrip(_)
LStrip(s) ==
    IF s # <<>> /\ s[1] \in Whitespace THEN LStrip(Tail(s)) ELSE s

RECURSIVE RStrip(_)
RStrip(s) ==
    IF s # <<>> /\ s[Len(s)] \in Whitespace
    THEN RStrip(SubSeq(s, 1, Len(s) - 1)) ELSE s

\* s.strip()
Strip(s) == RStrip(LStrip(s))

\* s.split(sep)[-1]: split scans left to right for non-overlapping separators
RECURSIVE SplitLast(_, _, _)
SplitLast(s, sep, i) ==
    IF i + Len(sep) - 1 > Len(s) THEN s
    ELSE IF StartsAt(s, sep, i)
         THEN SplitLast(SubSeq(s, i + Len(sep), Len(s)), sep, 1)
         ELSE SplitLast(s, sep, i + 1)

\* content.splitlines(): "\r\n" is one boundary, and a final boundary opens no line
RECURSIVE SplitLinesFrom(_, _, _)
SplitLinesFrom(s, i, cur) ==
    IF i > Len(s) THEN (IF cur = <<>> THEN <<>> ELSE <<cur>>)
    ELSE IF s[i] \in LineBreaks
         THEN LET skip == IF s[i] = "\r" /\ i < Len(s) /\ s[i + 1] = "\n"
                          THEN 2 ELSE 1
              IN  <<cur>> \o SplitLinesFrom(s, i + skip, <<>>)
         ELSE SplitLinesFrom(s, i + 1, Append(cur, s[i]))

splitlines(s) == SplitLinesFrom(s, 1, <<>>)

(***************************************************************************)
(* The policy table.                                                       *)
(***************************************************************************)
policies ==
    [n \in {S_default} |->
        [allowed |-> <<S_MIT, S_Apache2, S_BSD3, S_ISC>>,
         disallowed |-> <<S_GPL2, S_GPL3, S_AGPL3>>]]

\* x in lst
InList(x, lst) == \E i \in 1..Len(lst) : lst[i] = x

(***************************************************************************)
(* check_compliance                                                        *)
(***************************************************************************)
check_compliance_allowed_first(license, pol) ==
    IF license.t # "str" THEN "review-required"
    ELSE IF InList(license.v, pol.allowed) THEN "compliant"
    ELSE IF Contains(license.v, S_OR) \/ Contains(license.v, S_AND)
         THEN "review-required"
    ELSE IF InList(license.v, pol.disallowed) THEN "non-compliant"
    ELSE "review-required"

check_compliance(license, pol) ==
    IF license.t # "str" THEN "review-required"
    ELSE IF Contains(license.v, S_OR) \/ Contains(license.v, S_AND)
         THEN "review-required"
    ELSE IF InList(license.v, pol.allowed) THEN "compliant"
    ELSE IF InList(license.v, pol.disallowed) THEN "non-compliant"
    ELSE "review-required"

(***************************************************************************)
(* parse_requirements_txt                                                  *)
(***************************************************************************)
RECURSIVE NameRun(_)
\* the greedy ([a-zA-Z0-9_.-]+) at the head of s; <<>> when it cannot match
NameRun(s) ==
    IF s # <<>> /\ s[1] \in NameChars THEN <<s[1]>> \o NameRun(Tail(s)) ELSE <<>>

RECURSIVE UntilSpace(_)
UntilSpace(s) ==
    IF s # <<>> /\ s[1] \notin Whitespace THEN <<s[1]>> \o UntilSpace(Tail(s))
    ELSE <<>>

\* a pattern ^\s*(\S+): the token runs to the next whitespace
package_pattern_to_space(line) == UntilSpace(LStrip(line))

\* package_pattern.match(line): group(1), or <<>> when there is no match
package_pattern(line) == NameRun(LStrip(line))

RECURSIVE ParseLines(_)
ParseLines(lines) ==
    IF lines = <<>> THEN <<>>
    ELSE LET line == Strip(Head(lines))
             rest == ParseLines(Tail(lines))
         IN  IF line = <<>> \/ line[1] = "#" THEN rest
             ELSE IF package_pattern(line) # <<>>
                  THEN <<package_pattern(line)>> \o rest
                  ELSE rest

parse_requirements_txt(content) == ParseLines(splitlines(content))

(***************************************************************************)
(* Input spaces of the pure functions.                                     *)
(***************************************************************************)
RECURSIVE StringsUpTo(_, _)
\* every string over alphabet of length at most n
StringsUpTo(alphabet, n) ==
    IF n = 0 THEN {<<>>}
    ELSE LET shorter == StringsUpTo(alphabet, n - 1)
         IN  shorter \cup {Append(s, c) : s \in shorter, c \in alphabet}

\* json.loads of a text: JSONDecodeError (valid = FALSE), or a document whose
\* 'dependencies' and 'devDependencies' objects have these keys, in order
InvalidJson == [valid |-> FALSE, dependencies |-> <<>>, devDependencies |-> <<>>]
JsonDoc(deps, dev) == [valid |-> TRUE, dependencies |-> deps, devDependencies |-> dev]

\* request.files.get('dependencyFile') when the form holds no such file
NoFile ==
    [present |-> FALSE, filename |-> <<>>, utf8 |-> TRUE, text |-> <<>>,
     json |-> InvalidJson]

NoResponse == [code |-> 0, error |-> FALSE, records |-> <<>>]
NoDownload == [err |-> FALSE, status |-> 0, valid |-> FALSE, entries |-> <<>>]

\* the request machine is idle while a pure function is exercised
ReqIdle ==
    /\ pc = "off"
    /\ repo_url = None
    /\ file = NoFile
    /\ policy_name = None
    /\ policy = policies[S_default]
    /\ mode = "none"
    /\ download = NoDownload
    /\ entries = <<>>
    /\ kind = "none"
    /\ queue = <<>>
    /\ results = <<>>
    /\ response = NoResponse
    /\ netlog = <<>>
    /\ errlog = <<>>

NoRet == [done |-> FALSE, val |-> None]

----
\* The classifier over licence values and policies.
LicenseStrings ==
    {S_MIT, S_Apache2, S_GPL3, S_AGPL3, S_Unknown, S_ErrorFetching,
     <<"m", "i", "t">>, <<"M", "I", "T", " ">>, <<"W", "T", "F", "P", "L">>,
     <<"(", "M", "I", "T", " ", "O", "R", " ", "A", "p", "a", "c", "h", "e", "-", "2", ".", "0", ")">>,
     <<"M", "I", "T", " ", "O", "R", " ", "I", "S", "C">>,
     <<"M", "I", "T", " ", "A", "N", "D", " ", "I", "S", "C">>,
     <<"M", "I", "T", " ", "o", "r", " ", "I", "S", "C">>,
     <<"G", "P", "L", "-", "3", ".", "0", " ", "O", "R", " ", "M", "I", "T">>,
     <<"O", "R">>, <<" ", "A", "N", "D", " ">>}
       \cup StringsUpTo({" ", "O", "R"}, MaxLicLen)

LicenseValues ==
    {Str(s) : s \in LicenseStrings} \cup {None, List(<<>>), List(S_MIT)}

\* policies.default, and policies that list a compound expression, list one
\* identifier on both sides, or list nothing
TestPolicies ==
    {policies[S_default],
     [allowed |-> <<S_MIT, <<"M", "I", "T", " ", "O", "R", " ", "I", "S", "C">>, <<" ", "O", "R", " ">>>>,
      disallowed |-> <<S_MIT, S_GPL3, <<"M", "I", "T", " ", "A", "N", "D", " ", "I", "S", "C">>>>],
     [allowed |-> <<>>, disallowed |-> <<>>]}

InitClassify ==
    /\ ReqIdle
    /\ \E l \in LicenseValues, p \in TestPolicies : arg = [license |-> l, policy |-> p]
    /\ ret = NoRet

Classify ==
    /\ ~ret.done
    /\ ret' = [done |-> TRUE, val |-> check_compliance(arg.license, arg.policy)]
    /\ UNCHANGED <<reqvars, arg>>

NextClassify == Classify

SpecClassify == InitClassify /\ [][NextClassify]_vars

\* declarative substring, independent of the scanning Contains
HasSub(s, sub) ==
    \E i \in 1..(Len(s) + 1) : i + Len(sub) - 1 <= Len(s) /\ SubSeq(s, i, i + Len(sub) - 1) = sub

IsCompound(s) == HasSub(s, S_OR) \/ HasSub(s, S_AND)

Member(s, lst) == s \in {lst[i] : i \in 1..Len(lst)}

\* C1: check_compliance returns review-required for a non-string; else
\* review-required for a string containing " OR " or " AND " (even when listed as
\* allowed); else compliant for an exact member of policy.allowed; else
\* non-compliant for an exact member of policy.disallowed; else review-required.
\* compliant is returned only for an allowed string that is not compound.
C1_Classifier ==
    ret.done =>
        LET l == arg.license
            p == arg.policy
        IN  /\ (l.t # "str") => ret.val = "review-required"
            /\ (l.t = "str" /\ IsCompound(l.v)) => ret.val = "review-required"
            /\ (l.t = "str" /\ ~IsCompound(l.v) /\ Member(l.v, p.allowed))
                  => ret.val = "compliant"
            /\ (l.t = "str" /\ ~IsCompound(l.v) /\ ~Member(l.v, p.allowed)
                  /\ Member(l.v, p.disallowed)) => ret.val = "non-compliant"
            /\ (l.t = "str" /\ ~IsCompound(l.v) /\ ~Member(l.v, p.allowed)
                  /\ ~Member(l.v, p.disallowed)) => ret.val = "review-required"
            /\ (ret.val = "compliant")
                  => (l.t = "str" /\ Member(l.v, p.allowed) /\ ~IsCompound(l.v))

\* a compound expression that the policy lists as allowed has been classified
C1_Witness ==
    /\ ret.done
    /\ arg.license.t = "str"
    /\ IsCompound(arg.license.v)
    /\ Member(arg.license.v, arg.policy.allowed)
    /\ ret.val = "review-required"

----
\* The requirements.txt parser over every short content.
ContentAlphabet == {"a", "-", "=", "#", " ", "\n", "\r"}

InitParse ==
    /\ ReqIdle
    /\ \E c \in StringsUpTo(ContentAlphabet, MaxContentLen) : arg = [content |-> c]
    /\ ret = NoRet

Parse ==
    /\ ~ret.done
    /\ ret' = [done |-> TRUE, val |-> parse_requirements_txt(arg.content)]
    /\ UNCHANGED <<reqvars, arg>>

NextParse == Parse

SpecParse == InitParse /\ [][NextParse]_vars

\* the lines of a text, declaratively: the maximal pieces between line
\* boundaries ("\r\n" counting once), without the piece after a final boundary
IsBreakAt(s, i) == s[i] \in LineBreaks
\* position i ends a boundary (a "\r" directly before "\n" does not end one)
EndsBreak(s, i) ==
    /\ IsBreakAt(s, i)
    /\ ~(s[i] = "\r" /\ i < Len(s) /\ s[i + 1] = "\n")
LineStarts(s) ==
    {i \in 1..Len(s) : i = 1 \/ EndsBreak(s, i - 1)}
LineEnd(s, i) ==
    IF \E j \in i..Len(s) : IsBreakAt(s, j)
    THEN (CHOOSE j \in i..Len(s) :
             IsBreakAt(s, j) /\ \A k \in i..(j - 1) : ~IsBreakAt(s, k)) - 1
    ELSE Len(s)
\* the trimmed line that starts at position i
TrimmedLineAt(s, i) == Strip(SubSeq(s, i, LineEnd(s, i)))
\* a line that yields a token: not blank, not a comment, begins with a name character
Yields(l) == l # <<>> /\ l[1] # "#" /\ l[1] \in NameChars
\* t is the maximal leading run of name characters of l
IsLeadingRun(t, l) ==
    /\ Len(t) >= 1
    /\ Len(t) <= Len(l)
    /\ SubSeq(l, 1, Len(t)) = t
    /\ \A k \in 1..Len(t) : t[k] \in NameChars
    /\ (Len(t) < Len(l) => l[Len(t) + 1] \notin NameChars)
\* the k-th smallest element of a set of numbers
Kth(S, k) == CHOOSE x \in S : Cardinality({y \in S : y < x}) = k - 1

\* C7: parse_requirements_txt returns, in file order and with duplicates kept,
\* one token per line that is neither blank nor a comment and that begins (after
\* surrounding whitespace is trimmed) with a name character; the token is the
\* line's maximal leading run of name characters.  Content of comments and blank
\* lines only yields the empty sequence, and no token holds any other character.
C7_ParseRequirements ==
    ret.done =>
        LET c == arg.content
            starts == {i \in LineStarts(c) : Yields(TrimmedLineAt(c, i))}
        IN  /\ Len(ret.val) = Cardinality(starts)
            /\ \A k \in 1..Len(ret.val) :
                  IsLeadingRun(ret.val[k], TrimmedLineAt(c, Kth(starts, k)))
            /\ (\A i \in LineStarts(c) :
                   LET l == TrimmedLineAt(c, i) IN l = <<>> \/ l[1] = "#")
                  => ret.val = <<>>
            /\ \A k \in 1..Len(ret.val) : \A j \in 1..Len(ret.val[k]) :
                  ret.val[k][j] \in NameChars

\* two lines each gave the same token, around a line that gave none
C7_Witness ==
    /\ ret.done
    /\ Len(ret.val) = 2
    /\ ret.val[1] = ret.val[2]
    /\ Len(splitlines(arg.content)) = 3

(***************************************************************************)
(* The licence resolvers.  A registry call ends in a transport error       *)
(* (err), or in a response with a status and a body; json tells whether    *)
(* response.json() can decode the body, license and classifiers are what   *)
(* the decoded document holds.                                             *)
(*                                                                         *)
(* An exception of the resolver is either caught inside it (the sentinel   *)
(* is returned) or propagates: raised tells which.  response.json() on a   *)
(* body that is not JSON raises requests.exceptions.JSONDecodeError, a     *)
(* RequestException (requests 2.27 and later), which the handler catches.  *)
(***************************************************************************)
\* a dict {"type": x} is Dict(<<x>>); a dict without the key is Dict(<<>>)
Dict(entry) == [t |-> "dict", v |-> entry]

Returned(x) == [raised |-> FALSE, val |-> x]
Raised == [raised |-> TRUE, val |-> None]

\* response.raise_for_status(): HTTPError for a 4xx or 5xx status
raise_for_status(status) == status >= 400 /\ status < 600

RECURSIVE FirstLicenseClassifier(_)
\* the loop of lines 44-48: the first classifier holding "License ::", as a
\* one-element sequence; <<>> when the loop ends without a break
FirstLicenseClassifier(classifiers) ==
    IF classifiers = <<>> THEN <<>>
    ELSE IF Contains(Head(classifiers), S_LicenseMarker)
         THEN <<Head(classifiers)>>
         ELSE FirstLicenseClassifier(Tail(classifiers))

\* lines 41-49 of get_license_from_pypi
pypi_license_of(resp) ==
    LET license_info == resp.license
        found == FirstLicenseClassifier(resp.classifiers)
        after == IF (~Truthy(license_info) \/ Strip(license_info.v) = S_UNKNOWN)
                    /\ found # <<>>
                 THEN Str(Strip(SplitLast(found[1], S_Sep, 1)))
                 ELSE license_info
    IN  IF Truthy(after) THEN after ELSE Str(S_Unknown)

get_license_from_pypi_unchecked(resp) ==
    IF resp.err THEN Raised
    ELSE IF ~resp.json THEN Returned(Str(S_ErrorFetching))
    ELSE Returned(pypi_license_of(resp))

get_license_from_pypi(resp) ==
    IF resp.err THEN Returned(Str(S_ErrorFetching))
    ELSE IF raise_for_status(resp.status) THEN Returned(Str(S_ErrorFetching))
    ELSE IF ~resp.json THEN Returned(Str(S_ErrorFetching))
    ELSE Returned(pypi_license_of(resp))

\* lines 66-69 of get_license_from_npm
npm_license_of(resp) ==
    LET license_info == resp.license
    IN  IF license_info.t = "dict"
        THEN (IF license_info.v = <<>> THEN Str(S_Unknown) ELSE license_info.v[1])
        ELSE IF Truthy(license_info) THEN license_info ELSE Str(S_Unknown)

get_license_from_npm(resp) ==
    IF resp.err THEN Returned(Str(S_ErrorFetching))
    ELSE IF raise_for_status(resp.status) THEN Returned(Str(S_ErrorFetching))
    ELSE IF ~resp.json THEN Returned(Str(S_ErrorFetching))
    ELSE Returned(npm_license_of(resp))

----
\* The resolvers over registry responses.
S_Compound == <<"(", "M", "I", "T", " ", "O", "R", " ", "A", "p", "a", "c", "h", "e", "-", "2", ".", "0", ")">>
C_Topic == <<"T", "o", "p", "i", "c", " ", ":", ":", " ", "U", "t", "i", "l", "i", "t", "i", "e", "s">>
C_LicenseMIT == <<"L", "i", "c", "e", "n", "s", "e", " ", ":", ":", " ", "O", "S", "I", " ", "A", "p", "p", "r", "o", "v", "e", "d", " ", ":", ":", " ", "M", "I", "T", " ", "L", "i", "c", "e", "n", "s", "e">>
C_LicenseBSD == <<"L", "i", "c", "e", "n", "s", "e", " ", ":", ":", " ", "O", "S", "I", " ", "A", "p", "p", "r", "o", "v", "e", "d", " ", ":", ":", " ", "B", "S", "D", " ", "L", "i", "c", "e", "n", "s", "e">>
C_LicenseBare == <<"L", "i", "c", "e", "n", "s", "e", " ", ":", ":">>

Statuses == {200, 300, 404, 500}

TransportError(eco) ==
    [eco |-> eco, err |-> TRUE, status |-> 0, json |-> FALSE, license |-> None,
     classifiers |-> <<>>]

PypiLicenses ==
    {None, Str(<<>>), Str(S_UNKNOWN), Str(<<" ">> \o S_UNKNOWN \o <<"\n">>),
     Str(<<" ", " ">>), Str(S_MIT), Str(S_GPL3), Str(S_Compound)}

PypiClassifierLists ==
    {<<>>, <<C_Topic>>, <<C_LicenseMIT>>, <<C_Topic, C_LicenseBSD, C_LicenseMIT>>,
     <<C_LicenseBare, C_LicenseMIT>>}

PypiResponses ==
    {TransportError("pypi")} \cup
    {[eco |-> "pypi", err |-> FALSE, status |-> s, json |-> j, license |-> l,
      classifiers |-> c] :
        s \in Statuses, j \in BOOLEAN, l \in PypiLicenses, c \in PypiClassifierLists}

NpmLicenses ==
    {None, Str(<<>>), Str(S_MIT), Str(S_GPL3), Str(S_Compound),
     Dict(<<>>), Dict(<<Str(S_MIT)>>), Dict(<<Str(S_AGPL3)>>), Dict(<<None>>),
     List(<<>>), List(S_MIT)}

NpmResponses ==
    {TransportError("npm")} \cup
    {[eco |-> "npm", err |-> FALSE, status |-> s, json |-> j, license |-> l,
      classifiers |-> <<>>] :
        s \in Statuses, j \in BOOLEAN, l \in NpmLicenses}

InitResolve ==
    /\ ReqIdle
    /\ \E r \in PypiResponses \cup NpmResponses : arg = r
    /\ ret = NoRet

CallPypi ==
    /\ ~ret.done
    /\ arg.eco = "pypi"
    /\ ret' = [done |-> TRUE, val |-> get_license_from_pypi(arg)]
    /\ UNCHANGED <<reqvars, arg>>

CallNpm ==
    /\ ~ret.done
    /\ arg.eco = "npm"
    /\ ret' = [done |-> TRUE, val |-> get_license_from_npm(arg)]
    /\ UNCHANGED <<reqvars, arg>>

NextResolve == CallPypi \/ CallNpm

SpecResolve == InitResolve /\ [][NextResolve]_vars

Sentinel(r) == ~r.raised /\ r.val = Str(S_ErrorFetching)

\* C4 as stated: a transport error or any non-2xx status makes either resolver
\* return 'Error fetching license', and nothing propagates.
C4_Original ==
    (ret.done /\ (arg.err \/ arg.status < 200 \/ arg.status >= 300))
        => Sentinel(ret.val)

\* C4 (amended): a transport error or a 4xx/5xx status makes either resolver
\* return 'Error fetching license', and no exception propagates to the caller.
C4_SoftFailure ==
    (ret.done /\ (arg.err \/ (arg.status >= 400 /\ arg.status < 600)))
        => Sentinel(ret.val)

\* both failures have been answered, with a body that names a licence
C4_Witness ==
    /\ ret.done
    /\ ~arg.err
    /\ arg.status = 404
    /\ arg.json
    /\ arg.license = Str(S_MIT)
    /\ Sentinel(ret.val)

\* a successful response: a 200 whose body decodes
Success(r) == ~r.err /\ r.status = 200 /\ r.json

\* the text after the last "::" of s, declaratively
AfterLastSep(s) ==
    LET at == {i \in 1..Len(s) : i + 1 <= Len(s) /\ s[i] = ":" /\ s[i + 1] = ":"}
    IN  IF at = {} THEN s
        ELSE LET last == CHOOSE i \in at : \A j \in at : j <= i
             IN  SubSeq(s, last + 2, Len(s))

\* C8: for a successful PyPI response the resolver returns info.license when it
\* is non-empty and, trimmed, not 'UNKNOWN'; otherwise the trimmed text after the
\* last '::' of the first classifier containing 'License ::' (the sentinel when
\* that text is empty); and 'Unknown' when no classifier contains 'License ::'.
C8_PypiFallback ==
    (ret.done /\ arg.eco = "pypi" /\ Success(arg)) =>
        LET lic == arg.license
            hits == {i \in 1..Len(arg.classifiers) :
                        HasSub(arg.classifiers[i], S_LicenseMarker)}
        IN  /\ ~ret.val.raised
            /\ IF lic.t = "str" /\ lic.v # <<>> /\ Strip(lic.v) # S_UNKNOWN
               THEN ret.val.val = lic
               ELSE IF hits # {}
               THEN LET first == CHOOSE i \in hits : \A j \in hits : i <= j
                        text == Strip(AfterLastSep(arg.classifiers[first]))
                    IN  ret.val.val = Str(IF text = <<>> THEN S_Unknown ELSE text)
               ELSE ret.val.val = Str(S_Unknown)

\* C9: for a successful npm response the resolver returns the 'type' field of an
\* object licence, a plain non-empty string itself, and 'Unknown' when the
\* licence is absent or empty; in every case the returned value is a string.
C9_NpmLicense ==
    (ret.done /\ arg.eco = "npm" /\ Success(arg)) =>
        LET lic == arg.license
        IN  /\ ~ret.val.raised
            /\ (lic.t = "dict" /\ lic.v # <<>>) => ret.val.val = lic.v[1]
            /\ (lic.t = "str" /\ lic.v # <<>>) => ret.val.val = lic
            /\ (lic.t = "none" \/ (lic.t = "str" /\ lic.v = <<>>))
                  => ret.val.val = Str(S_Unknown)
            /\ ret.val.val.t = "str"

(***************************************************************************)
(* The /check request: check() and analyze_github_repository().  pc is the *)
(* handler's position, netlog the outbound calls made so far (in order,    *)
(* with what each received), errlog the warnings and errors logged.        *)
(***************************************************************************)
S_strict == <<"s", "t", "r", "i", "c", "t">>
S_repo == <<"h", "t", "t", "p", "s", ":", "/", "/", "g", "i", "t", "h", "u", "b", ".", "c", "o", "m", "/", "o", "/", "r">>
S_Gemfile == <<"G", "e", "m", "f", "i", "l", "e">>
S_req_bak == <<"r", "e", "q", "u", "i", "r", "e", "m", "e", "n", "t", "s", ".", "t", "x", "t", ".", "b", "a", "k">>
S_dev_req == <<"d", "e", "v", "-", "r", "e", "q", "u", "i", "r", "e", "m", "e", "n", "t", "s", ".", "t", "x", "t">>
S_sub_pkg == <<"w", "e", "b", "/", "p", "a", "c", "k", "a", "g", "e", ".", "j", "s", "o", "n">>
P_a == <<"a">>
P_b == <<"b">>
P_c == <<"c">>

\* bool(file): a FileStorage is true when it has a filename
FileTruthy(f) == f.present /\ f.filename # <<>>

ErrorResponse(code) == [code |-> code, error |-> TRUE, records |-> <<>>]

\* policies.get(request.form.get('policy', 'default'), {})
select_policy_or_empty(form) ==
    LET name == IF form.t = "none" THEN S_default ELSE form.v
    IN  IF name \in DOMAIN policies THEN policies[name]
        ELSE [allowed |-> <<>>, disallowed |-> <<>>]

\* lines 191-192: policies.get(request.form.get('policy', 'default'), policies["default"])
select_policy(form) ==
    LET name == IF form.t = "none" THEN S_default ELSE form.v
    IN  IF name \in DOMAIN policies THEN policies[name] ELSE policies[S_default]

\* line 146: the policy of repository mode
repo_policy == policies[S_default]

RECURSIVE Without(_, _)
\* the keys of seq that are not in seen, in order
Without(seq, seen) ==
    IF seq = <<>> THEN <<>>
    ELSE IF InList(Head(seq), seen) THEN Without(Tail(seq), seen)
         ELSE <<Head(seq)>> \o Without(Tail(seq), seen)

\* the keys of {**dependencies, **devDependencies}, in the dict's order
all_deps(data) ==
    data.dependencies \o Without(data.devDependencies, data.dependencies)

\* the resolver of an ecosystem
resolve(eco, resp) ==
    IF eco = "pypi" THEN get_license_from_pypi(resp) ELSE get_license_from_npm(resp)

\* what the registries answer while a request runs
LookupResponses(eco) ==
    IF eco = "pypi"
    THEN {r \in PypiResponses :
            \/ r.err
            \/ /\ r.status = 200
               /\ r.json
               /\ r.classifiers = <<>>
               /\ r.license \in {Str(S_MIT), Str(S_GPL3), Str(S_Compound)}}
    ELSE {r \in NpmResponses :
            \/ /\ ~r.err
               /\ r.status \in {200, 404}
               /\ r.json
               /\ r.license \in {Str(S_MIT), Dict(<<Str(S_AGPL3)>>), List(S_MIT)}
               /\ (r.status = 404 => r.license = Str(S_MIT))}

T_three == <<"a", "=", "=", "1", "\n", "#", "c", "\n", "b", ">", "=", "2", "\n", "a">>
T_two == <<"a", "[", "x", "]", "\n", "\n", " ", "b">>
T_comments == <<"#", "c", "\n", "\n">>
T_brace == <<"{">>
T_json == <<"{", "}">>

Contents ==
    {[text |-> T_three, json |-> InvalidJson],
     [text |-> T_comments, json |-> InvalidJson],
     [text |-> T_brace, json |-> InvalidJson],
     [text |-> T_json, json |-> JsonDoc(<<P_a, P_b>>, <<P_b, P_c>>)]}

Filenames == {<<>>, S_requirements_txt, S_dev_req, S_package_json, S_Gemfile, S_req_bak}

Files ==
    {NoFile} \cup
    {[present |-> TRUE, filename |-> f, utf8 |-> u, text |-> c.text, json |-> c.json] :
        f \in Filenames, u \in BOOLEAN, c \in Contents}

\* the file of a request that names a repository as well
BothSupplied ==
    [present |-> TRUE, filename |-> S_requirements_txt, utf8 |-> TRUE,
     text |-> T_three, json |-> InvalidJson]

Entry(name, utf8, text, json) ==
    [present |-> TRUE, filename |-> name, utf8 |-> utf8, text |-> text, json |-> json]

\* the archives a snapshot download can deliver: no zip at all, an empty one,
\* and archives with manifests of both kinds, broken ones among them
Archives ==
    {[valid |-> FALSE, entries |-> <<>>],
     [valid |-> TRUE, entries |-> <<>>],
     [valid |-> TRUE, entries |->
        <<Entry(S_Gemfile, TRUE, T_two, InvalidJson),
          Entry(S_dev_req, TRUE, T_two, InvalidJson),
          Entry(S_package_json, TRUE, T_brace, InvalidJson),
          Entry(S_sub_pkg, TRUE, T_json, JsonDoc(<<P_a>>, <<P_a, P_c>>))>>],
     [valid |-> TRUE, entries |->
        <<Entry(S_package_json, TRUE, T_brace, InvalidJson),
          Entry(S_requirements_txt, TRUE, T_two, InvalidJson)>>],
     [valid |-> TRUE, entries |->
        <<Entry(S_requirements_txt, TRUE, T_comments, InvalidJson),
          Entry(S_sub_pkg, FALSE, T_json, InvalidJson)>>]}

\* what a snapshot download ends in: a transport error, or a status and a body
\* (a zip archive, or not, under status 200; no archive under another status)
Downloads ==
    {[err |-> TRUE, status |-> 0, valid |-> FALSE, entries |-> <<>>]} \cup
    {[err |-> FALSE, status |-> s, valid |-> FALSE, entries |-> <<>>] : s \in {300, 404}} \cup
    {[err |-> FALSE, status |-> 200, valid |-> a.valid, entries |-> a.entries] :
        a \in Archives}

Init ==
    /\ pc = "check"
    /\ repo_url \in {None, Str(<<>>), Str(S_repo)}
    /\ file \in Files
    /\ Truthy(repo_url) => file \in {NoFile, BothSupplied}
    /\ policy_name \in {None, Str(S_default), Str(S_strict)}
    /\ policy = policies[S_default]
    /\ mode = "none"
    /\ download = NoDownload
    /\ entries = <<>>
    /\ kind = "none"
    /\ queue = <<>>
    /\ results = <<>>
    /\ response = NoResponse
    /\ netlog = <<>>
    /\ errlog = <<>>
    /\ arg = None
    /\ ret = NoRet

\* the request's inputs, and the variables of the pure-function specifications
inputs == <<repo_url, file, policy_name, arg, ret>>

\* an error response ends the request; analyze's partial results are dropped
Fail(code, event) ==
    /\ response' = ErrorResponse(code)
    /\ errlog' = Append(errlog, event)
    /\ results' = <<>>
    /\ pc' = "done"

\* lines 189-192
Receive ==
    /\ pc = "check"
    /\ policy' = select_policy(policy_name)
    /\ pc' = "dispatch"
    /\ UNCHANGED <<inputs, mode, download, entries, kind, queue, results, response,
                   netlog, errlog>>

\* lines 194-196
NoInput ==
    /\ pc = "dispatch"
    /\ ~FileTruthy(file) /\ ~Truthy(repo_url)
    /\ Fail(400, "NoInput")
    /\ UNCHANGED <<inputs, policy, mode, download, entries, kind, queue, netlog>>

\* lines 201-202 and 130-134
RepoStart ==
    /\ pc = "dispatch"
    /\ Truthy(repo_url)
    /\ mode' = "repo"
    /\ pc' = "fetch_main"
    /\ UNCHANGED <<inputs, policy, download, entries, kind, queue, results, response,
                   netlog, errlog>>

Upload == pc = "dispatch" /\ ~Truthy(repo_url) /\ FileTruthy(file)

\* lines 207-211
UploadBadEncoding ==
    /\ Upload
    /\ ~file.utf8
    /\ mode' = "upload"
    /\ Fail(400, "InvalidEncoding")
    /\ UNCHANGED <<inputs, policy, download, entries, kind, queue, netlog>>

\* a file that only holds "requirements.txt" somewhere in its name is parsed too
UploadRequirementsAnywhere ==
    /\ Upload
    /\ file.utf8
    /\ Contains(file.filename, S_requirements_txt)
    /\ mode' = "upload"
    /\ kind' = "pypi"
    /\ queue' = parse_requirements_txt(file.text)
    /\ pc' = "lookup"
    /\ UNCHANGED <<inputs, policy, download, entries, results, response, netlog, errlog>>

\* lines 213-214
UploadRequirements ==
    /\ Upload
    /\ file.utf8
    /\ EndsWith(file.filename, S_requirements_txt)
    /\ mode' = "upload"
    /\ kind' = "pypi"
    /\ queue' = parse_requirements_txt(file.text)
    /\ pc' = "lookup"
    /\ UNCHANGED <<inputs, policy, download, entries, results, response, netlog, errlog>>

\* lines 220-225
UploadPackageJson ==
    /\ Upload
    /\ file.utf8
    /\ ~EndsWith(file.filename, S_requirements_txt)
    /\ EndsWith(file.filename, S_package_json)
    /\ file.json.valid
    /\ mode' = "upload"
    /\ kind' = "npm"
    /\ queue' = all_deps(file.json)
    /\ pc' = "lookup"
    /\ UNCHANGED <<inputs, policy, download, entries, results, response, netlog, errlog>>

\* the upload handler skipping a malformed package.json as repository mode does
UploadBadJsonSkipped ==
    /\ Upload
    /\ file.utf8
    /\ ~EndsWith(file.filename, S_requirements_txt)
    /\ EndsWith(file.filename, S_package_json)
    /\ ~file.json.valid
    /\ mode' = "upload"
    /\ errlog' = Append(errlog, "InvalidJSON")
    /\ response' = [code |-> 200, error |-> FALSE, records |-> results]
    /\ pc' = "done"
    /\ UNCHANGED <<inputs, policy, download, entries, kind, queue, results, netlog>>

\* lines 221-222 and 231-233
UploadBadJson ==
    /\ Upload
    /\ file.utf8
    /\ ~EndsWith(file.filename, S_requirements_txt)
    /\ EndsWith(file.filename, S_package_json)
    /\ ~file.json.valid
    /\ mode' = "upload"
    /\ Fail(400, "InvalidJSON")
    /\ UNCHANGED <<inputs, policy, download, entries, kind, queue, netlog>>

\* lines 234-236
UploadUnsupported ==
    /\ Upload
    /\ file.utf8
    /\ ~EndsWith(file.filename, S_requirements_txt)
    /\ ~EndsWith(file.filename, S_package_json)
    /\ mode' = "upload"
    /\ Fail(400, "UnsupportedFileType")
    /\ UNCHANGED <<inputs, policy, download, entries, kind, queue, netlog>>

\* one turn of a dependency loop, a failed lookup leaving no record
LookupDroppingFailures ==
    /\ pc = "lookup"
    /\ queue # <<>>
    /\ \E resp \in LookupResponses(kind) :
          LET package == Head(queue)
              got == resolve(kind, resp)
              license == got.val
              status == check_compliance(license, IF mode = "repo" THEN repo_policy ELSE policy)
          IN  /\ netlog' = Append(netlog, [call |-> kind, name |-> package, resp |-> resp])
              /\ results' = IF license = Str(S_ErrorFetching) THEN results
                            ELSE Append(results, [dependency |-> package, license |-> license,
                                                  status |-> status])
              /\ queue' = Tail(queue)
              /\ UNCHANGED <<pc, response, errlog>>
    /\ UNCHANGED <<inputs, policy, mode, download, entries, kind>>

\* one turn of a dependency loop: lines 215-218, 227-230, 153-156, 167-170.
\* An exception out of the resolver reaches check's `except Exception` (line 237).
Lookup ==
    /\ pc = "lookup"
    /\ queue # <<>>
    /\ \E resp \in LookupResponses(kind) :
          LET package == Head(queue)
              got == resolve(kind, resp)
              license == got.val
              status == check_compliance(license, IF mode = "repo" THEN repo_policy ELSE policy)
          IN  /\ netlog' = Append(netlog, [call |-> kind, name |-> package, resp |-> resp])
              /\ IF got.raised
                 THEN Fail(500, "Processing") /\ UNCHANGED queue
                 ELSE /\ results' = Append(results, [dependency |-> package,
                                                     license |-> license, status |-> status])
                      /\ queue' = Tail(queue)
                      /\ UNCHANGED <<pc, response, errlog>>
    /\ UNCHANGED <<inputs, policy, mode, download, entries, kind>>

\* lines 241-242: the upload's loop has ended
UploadDone ==
    /\ pc = "lookup"
    /\ queue = <<>>
    /\ mode = "upload"
    /\ response' = [code |-> 200, error |-> FALSE, records |-> results]
    /\ pc' = "done"
    /\ UNCHANGED <<inputs, policy, mode, download, entries, kind, queue, results,
                   netlog, errlog>>

\* line 137, the call raising: lines 175-177, then 237-239
FetchMainError ==
    /\ pc = "fetch_main"
    /\ \E d \in Downloads :
          /\ d.err
          /\ netlog' = Append(netlog, [call |-> "main", name |-> <<>>, resp |-> d])
    /\ Fail(500, "RepositoryUnavailable")
    /\ UNCHANGED <<inputs, policy, mode, download, entries, kind, queue>>

\* lines 137-139: a response whose status is not 200
FetchMainNot200 ==
    /\ pc = "fetch_main"
    /\ \E d \in Downloads :
          /\ ~d.err
          /\ d.status # 200
          /\ netlog' = Append(netlog, [call |-> "main", name |-> <<>>, resp |-> d])
    /\ pc' = "fetch_master"
    /\ UNCHANGED <<inputs, policy, mode, download, entries, kind, queue, results,
                   response, errlog>>

\* lines 137-138: status 200
FetchMainOk ==
    /\ pc = "fetch_main"
    /\ \E d \in Downloads :
          /\ ~d.err
          /\ d.status = 200
          /\ netlog' = Append(netlog, [call |-> "main", name |-> <<>>, resp |-> d])
          /\ download' = d
    /\ pc' = "unzip"
    /\ UNCHANGED <<inputs, policy, mode, entries, kind, queue, results, response, errlog>>

\* lines 140-141, the call or raise_for_status raising: lines 175-177, then 237-239
FetchMasterFail ==
    /\ pc = "fetch_master"
    /\ \E d \in Downloads :
          /\ d.err \/ raise_for_status(d.status)
          /\ netlog' = Append(netlog, [call |-> "master", name |-> <<>>, resp |-> d])
    /\ Fail(500, "RepositoryUnavailable")
    /\ UNCHANGED <<inputs, policy, mode, download, entries, kind, queue>>

\* lines 140-141
FetchMasterOk ==
    /\ pc = "fetch_master"
    /\ \E d \in Downloads :
          /\ ~d.err
          /\ ~raise_for_status(d.status)
          /\ netlog' = Append(netlog, [call |-> "master", name |-> <<>>, resp |-> d])
          /\ download' = d
    /\ pc' = "unzip"
    /\ UNCHANGED <<inputs, policy, mode, entries, kind, queue, results, response, errlog>>

\* line 143, BadZipFile: lines 178-180, then 237-239
UnzipBad ==
    /\ pc = "unzip"
    /\ ~download.valid
    /\ Fail(500, "InvalidArchive")
    /\ UNCHANGED <<inputs, policy, mode, download, entries, kind, queue, netlog>>

\* lines 143-148
UnzipOk ==
    /\ pc = "unzip"
    /\ download.valid
    /\ entries' = download.entries
    /\ pc' = "scan"
    /\ UNCHANGED <<inputs, policy, mode, download, kind, queue, results, response,
                   netlog, errlog>>

Manifest(e) ==
    EndsWith(e.filename, S_requirements_txt) \/ EndsWith(e.filename, S_package_json)

\* lines 151 and 160: decode raises UnicodeDecodeError, caught at line 237
ScanBadEncoding ==
    /\ pc = "scan"
    /\ entries # <<>>
    /\ Manifest(Head(entries))
    /\ ~Head(entries).utf8
    /\ Fail(500, "Processing")
    /\ UNCHANGED <<inputs, policy, mode, download, entries, kind, queue, netlog>>

\* lines 149-152
ScanRequirements ==
    /\ pc = "scan"
    /\ entries # <<>>
    /\ EndsWith(Head(entries).filename, S_requirements_txt)
    /\ Head(entries).utf8
    /\ kind' = "pypi"
    /\ queue' = parse_requirements_txt(Head(entries).text)
    /\ entries' = Tail(entries)
    /\ pc' = "lookup"
    /\ UNCHANGED <<inputs, policy, mode, download, results, response, netlog, errlog>>

\* lines 158-165
ScanPackageJson ==
    /\ pc = "scan"
    /\ entries # <<>>
    /\ ~EndsWith(Head(entries).filename, S_requirements_txt)
    /\ EndsWith(Head(entries).filename, S_package_json)
    /\ Head(entries).utf8
    /\ Head(entries).json.valid
    /\ kind' = "npm"
    /\ queue' = all_deps(Head(entries).json)
    /\ entries' = Tail(entries)
    /\ pc' = "lookup"
    /\ UNCHANGED <<inputs, policy, mode, download, results, response, netlog, errlog>>

\* lines 161-162 and 171-173: the entry is skipped
ScanBadJson ==
    /\ pc = "scan"
    /\ entries # <<>>
    /\ ~EndsWith(Head(entries).filename, S_requirements_txt)
    /\ EndsWith(Head(entries).filename, S_package_json)
    /\ Head(entries).utf8
    /\ ~Head(entries).json.valid
    /\ errlog' = Append(errlog, "InvalidJSON")
    /\ entries' = Tail(entries)
    /\ UNCHANGED <<inputs, pc, policy, mode, download, kind, queue, results, response,
                   netlog>>

\* line 148: an entry that is no manifest
ScanOther ==
    /\ pc = "scan"
    /\ entries # <<>>
    /\ ~Manifest(Head(entries))
    /\ entries' = Tail(entries)
    /\ UNCHANGED <<inputs, pc, policy, mode, download, kind, queue, results, response,
                   netlog, errlog>>

\* the end of a manifest's loop in repository mode: back to line 148
NextEntry ==
    /\ pc = "lookup"
    /\ queue = <<>>
    /\ mode = "repo"
    /\ pc' = "scan"
    /\ UNCHANGED <<inputs, policy, mode, download, entries, kind, queue, results,
                   response, netlog, errlog>>

\* lines 182 and 241-242
RepoDone ==
    /\ pc = "scan"
    /\ entries = <<>>
    /\ response' = [code |-> 200, error |-> FALSE, records |-> results]
    /\ pc' = "done"
    /\ UNCHANGED <<inputs, policy, mode, download, entries, kind, queue, results,
                   netlog, errlog>>

Next ==
    \/ Receive
    \/ NoInput
    \/ RepoStart
    \/ UploadBadEncoding
    \/ UploadRequirements
    \/ UploadPackageJson
    \/ UploadBadJson
    \/ UploadUnsupported
    \/ Lookup
    \/ UploadDone
    \/ FetchMainError
    \/ FetchMainNot200
    \/ FetchMainOk
    \/ FetchMasterFail
    \/ FetchMasterOk
    \/ UnzipBad
    \/ UnzipOk
    \/ ScanBadEncoding
    \/ ScanRequirements
    \/ ScanPackageJson
    \/ ScanBadJson
    \/ ScanOther
    \/ NextEntry
    \/ RepoDone

Spec == Init /\ [][Next]_vars

----
\* Properties of a request.
UploadInput == ~Truthy(repo_url) /\ FileTruthy(file)

Calls(call) == {i \in 1..Len(netlog) : netlog[i].call = call}

MainFailed ==
    \E i \in Calls("main") : netlog[i].resp.err \/ netlog[i].resp.status # 200

MainSucceeded ==
    \E i \in Calls("main") : ~netlog[i].resp.err /\ netlog[i].resp.status = 200

Logged(event) == \E i \in 1..Len(errlog) : errlog[i] = event

\* C2: in repository mode, whenever the fetch of 'main' fails (a non-200
\* response or a transport error), 'master' is fetched exactly once before the
\* request fails with RepositoryUnavailable; there is no third download, and
\* 'master' is never fetched when 'main' succeeded.
C2_MasterFallback ==
    /\ Cardinality(Calls("main")) <= 1
    /\ Cardinality(Calls("master")) <= 1
    /\ MainSucceeded => Calls("master") = {}
    /\ (MainFailed /\ pc = "done") => Cardinality(Calls("master")) = 1
    /\ Logged("RepositoryUnavailable") => Cardinality(Calls("master")) = 1

Unsupported(f) ==
    ~EndsWith(f.filename, S_requirements_txt) /\ ~EndsWith(f.filename, S_package_json)

\* the caller-input errors of direct upload, by the request's inputs
UploadInputError ==
    \/ ~FileTruthy(file) /\ ~Truthy(repo_url)
    \/ UploadInput /\ ~file.utf8
    \/ UploadInput /\ Unsupported(file)
    \/ UploadInput /\ EndsWith(file.filename, S_package_json) /\ ~file.json.valid

\* C3 as stated: a request that hits a caller-input error (no input, bad
\* encoding, unsupported file name, or a package.json that is not valid JSON in
\* either input mode) ends with a 400 error object and no dependency records.
C3_Original ==
    (pc = "done" /\ (UploadInputError \/ (mode = "repo" /\ Logged("InvalidJSON"))))
        => response = ErrorResponse(400)

\* C3 (amended): a request that hits a caller-input error of direct upload (no
\* input, bad encoding, unsupported file name, an uploaded package.json that is
\* not valid JSON) ends with a 400 error object and no dependency records.
C3_CallerInputErrors ==
    (pc = "done" /\ UploadInputError) => response = ErrorResponse(400)

\* an uploaded package.json that is not valid JSON has been answered
C3_Witness ==
    /\ pc = "done"
    /\ UploadInput
    /\ file.utf8
    /\ EndsWith(file.filename, S_package_json)
    /\ ~file.json.valid
    /\ response.code = 400

\* C5: for a direct upload of a parseable manifest the response holds one record
\* per extracted dependency name, in extraction order: the i-th record names the
\* i-th dependency, carries what the resolver returned for the i-th lookup and
\* the classifier's verdict for it, whatever mix of lookups failed.
C5_UploadRecords ==
    (/\ pc = "done"
     /\ UploadInput
     /\ file.utf8
     /\ \/ EndsWith(file.filename, S_requirements_txt)
        \/ EndsWith(file.filename, S_package_json) /\ file.json.valid)
    =>
    LET eco == IF EndsWith(file.filename, S_requirements_txt) THEN "pypi" ELSE "npm"
        names == IF eco = "pypi" THEN parse_requirements_txt(file.text)
                 ELSE all_deps(file.json)
        recs == response.records
    IN  /\ response.code = 200
        /\ ~response.error
        /\ Len(recs) = Len(names)
        /\ Len(netlog) = Len(names)
        /\ \A i \in 1..Len(names) :
              /\ recs[i].dependency = names[i]
              /\ netlog[i].call = eco
              /\ netlog[i].name = names[i]
              /\ recs[i].license = resolve(eco, netlog[i].resp).val
              /\ recs[i].status = check_compliance(recs[i].license, policy)

\* three dependencies were resolved, the first lookup failing, the others not
C5_Witness ==
    /\ pc = "done"
    /\ UploadInput
    /\ Len(response.records) = 3
    /\ netlog[1].resp.err
    /\ response.records[1].license = Str(S_ErrorFetching)
    /\ response.records[2].status = "non-compliant"
    /\ response.records[3].status = "compliant"

\* C6: in direct-upload mode a file whose name ends in neither
\* 'requirements.txt' nor 'package.json' yields a caller-input error, and no
\* outbound call is made at any point of the request.
C6_UnsupportedNoNetwork ==
    (UploadInput /\ Unsupported(file)) =>
        /\ netlog = <<>>
        /\ pc = "done" => response = ErrorResponse(400)

\* a decodable file named requirements.txt.bak has been refused
C6_Witness ==
    /\ pc = "done"
    /\ UploadInput
    /\ file.utf8
    /\ file.filename = S_req_bak
    /\ Logged("UnsupportedFileType")
    /\ response.code = 400

\* the policy the request's policy name selects
NamedPolicy ==
    LET name == IF policy_name = None THEN S_default ELSE policy_name.v
    IN  IF \E n \in DOMAIN policies : n = name THEN policies[name]
        ELSE policies[S_default]

\* C10: in both input modes every record's status is computed with the policy
\* the request's policy name selects: the table's entry for a name in the table,
\* the 'default' policy for an unknown or missing name.
C10_PolicyByName ==
    /\ \A i \in 1..Len(results) :
          results[i].status = check_compliance(results[i].license, NamedPolicy)
    /\ \A i \in 1..Len(response.records) :
          response.records[i].status
              = check_compliance(response.records[i].license, NamedPolicy)

\* a repository request that names an unknown policy returned both verdicts
C10_Witness ==
    /\ pc = "done"
    /\ mode = "repo"
    /\ policy_name = Str(S_strict)
    /\ \E i \in 1..Len(response.records) : response.records[i].status = "compliant"
    /\ \E i \in 1..Len(response.records) : response.records[i].status = "non-compliant"

====
